---- MODULE Spec2Model ----
(***************************************************************************)
(* Model of src/src/index.ts (the current version, lines 1-271, and the    *)
(* main() of the earlier version, lines 424-515, kept in the file): the    *)
(* novelty-detection pipeline of the monitor.  main() asks the agent for   *)
(* the four sources, derives a stable identity per candidate with          *)
(* gerarIdEstavel, reconciles it against the table `oportunidades` and     *)
(* mails the batch of new records.                                         *)
(*                                                                         *)
(* Text is a sequence of one-character tokens.  The tokens "a_acute" and   *)
(* "A_acute" stand for the precomposed letters U+00E1 / U+00C1 and         *)
(* "comb_acute" for the combining mark U+0301.  A JavaScript value of the  *)
(* untrusted payload is a record [tipo, txt]: tipo is its typeof (or       *)
(* "undefined" for an absent field) and txt its characters.                *)
(***************************************************************************)
EXTENDS Integers, Sequences, FiniteSets

VARIABLES
    store,               \* table oportunidades: the rows, PRIMARY KEY id
    runs,                \* how many times main() has been started
    pc,                  \* where main() is
    q,                   \* 1..4: the source the agent is asked about next
    g,                   \* index of grupo in todosResultados
    i,                   \* index of item in grupo.dados
    dados,               \* dadosIPEA, dadosFNP, dadosUNDP, dadosICLEI
    idUnico,             \* const idUnico of the current iteration
    novasOportunidades,  \* the notification batch of this run
    envio,               \* what enviarEmailResumo did in this run
    storeInicio,         \* history: the table when this run opened it
    notificados,         \* history: ids ever pushed to a batch, over all runs
    duplicados,          \* history: ids pushed to a batch more than once
    anterior,            \* history: how the previous run ended
    pagina,              \* replay: what the agent answers for each source
    entrada,             \* SpecId: the two argument triples of gerarIdEstavel;
                         \* SpecJson: the two texts given to extrairJson
    saida,               \* what the function returned for each of them
    log,                 \* history: what this run has called, in order
    versao,              \* which main() this run executes: 2 the current one
                         \* (lines 174-269), 1 the earlier one (lines 424-515)
    outra                \* SpecOverlap: the variables of the second process
                         \* while the first one is taking its steps

vars == <<store, runs, pc, q, g, i, dados, idUnico, novasOportunidades, envio,
          storeInicio, notificados, duplicados, anterior, pagina, entrada, saida,
          log, versao, outra>>

mainVars == <<store, runs, pc, q, g, i, dados, idUnico, novasOportunidades, envio,
              storeInicio, notificados, duplicados, anterior, log, versao>>

(***************************************************************************)
(* Bounds of the model.                                                    *)
(***************************************************************************)
MaxRuns == 2
MaxItens == 2
MaxSufixo == 2
MaxTexto == 4

(***************************************************************************)
(* Program constants.                                                      *)
(***************************************************************************)
SlugLen == 60

FONTE_IPEA == <<"I", "P", "E", "A">>
FONTE_FNP == <<"F", "N", "P">>
FONTE_UNDP == <<"U", "N", "D", "P">>
FONTE_ICLEI == <<"I", "C", "L", "E", "I">>

\* todosResultados lists the sources in this order.
Fontes == <<FONTE_IPEA, FONTE_FNP, FONTE_UNDP, FONTE_ICLEI>>

NumFontes == Len(Fontes)

(***************************************************************************)
(* JavaScript values of the parsed payload.                                *)
(***************************************************************************)
Str(s) == [tipo |-> "string", txt |-> s]
Undef == [tipo |-> "undefined", txt |-> <<>>]
Num(s) == [tipo |-> "number", txt |-> s]

\* Mutant: every value passes for true.
TruthySempre(v) == TRUE

\* ToBoolean: "" and undefined and 0 are falsy, every other value is truthy.
Truthy(v) ==
    CASE v.tipo = "string" -> v.txt # <<>>
      [] v.tipo = "number" -> v.txt # <<"0">>
      [] OTHER -> FALSE

(***************************************************************************)
(* Characters.                                                             *)
(***************************************************************************)
Digitos == {"0", "1", "2", "3", "4", "5", "6", "7", "8", "9"}
Minusculas == {"a", "b"}

\* String.prototype.toLowerCase, one character.
toLowerCase(c) ==
    CASE c = "A" -> "a"
      [] c = "B" -> "b"
      [] c = "A_acute" -> "a_acute"
      [] OTHER -> c

\* normalize('NFD'), one character: canonical decomposition.
NFD(c) ==
    CASE c = "a_acute" -> <<"a", "comb_acute">>
      [] c = "A_acute" -> <<"A", "comb_acute">>
      [] OTHER -> <<c>>

\* The class U+0300..U+036F: the combining diacritical marks.
EhCombinante(c) == c = "comb_acute"

\* /[^a-z0-9]/ negated: the characters the title keeps.
EhAlfaNum(c) == c \in Minusculas \cup Digitos

\* /[^0-9]/ negated: the characters the deadline keeps.
EhDigito(c) == c \in Digitos

\* Mutant: the title is not lowercased.
MapLowerNada(s) == s

\* toLowerCase of a string
MapLower(s) == [j \in 1..Len(s) |-> toLowerCase(s[j])]

RECURSIVE MapNFD(_)
MapNFD(s) ==
    IF s = <<>> THEN <<>> ELSE NFD(Head(s)) \o MapNFD(Tail(s))

\* replace(/[U+0300-U+036F]/g, '')
SemCombinantes(s) == SelectSeq(s, LAMBDA c : ~EhCombinante(c))

\* replace(/[^a-z0-9]/g, '')
SoAlfaNum(s) == SelectSeq(s, EhAlfaNum)

\* replace(/[^0-9]/g, '')
SoDigitos(s) == SelectSeq(s, EhDigito)

\* substring(0, n)
Substring0(s, n) == SubSeq(s, 1, IF Len(s) < n THEN Len(s) ELSE n)

(***************************************************************************)
(* gerarIdEstavel.  The parameters are typed string but receive the        *)
(* payload's values unchecked: a method call on a value that is not a      *)
(* string throws a TypeError (lancou = TRUE).                              *)
(***************************************************************************)
TituloLimpo(titulo) == SoAlfaNum(SemCombinantes(MapNFD(MapLower(titulo))))

SlugTitulo(titulo) == Substring0(TituloLimpo(titulo), SlugLen)

SlugPrazo(prazo) == IF Truthy(prazo) THEN SoDigitos(prazo.txt) ELSE <<"0", "0", "0", "0">>

\* Mutant: the id also carries something of the run that computed it.
IdFinalDaRodada(fonteNome, slugTitulo, slugPrazo) ==
    fonteNome \o <<"-">> \o slugTitulo \o <<"-">> \o slugPrazo
        \o (IF runs > 1 THEN <<"-", "2">> ELSE <<>>)

\* Mutant: the id leaves the source name out.
IdFinalSemFonte(fonteNome, slugTitulo, slugPrazo) == slugTitulo \o <<"-">> \o slugPrazo

IdFinal(fonteNome, slugTitulo, slugPrazo) ==
    fonteNome \o <<"-">> \o slugTitulo \o <<"-">> \o slugPrazo

gerarIdEstavel(fonteNome, titulo, prazo) ==
    IF titulo.tipo # "string" \/ (Truthy(prazo) /\ prazo.tipo # "string")
    THEN [lancou |-> TRUE, id |-> <<>>]
    ELSE [lancou |-> FALSE,
          id |-> IdFinal(fonteNome, SlugTitulo(titulo.txt), SlugPrazo(prazo))]

(***************************************************************************)
(* What the agent may answer.  An item is one object of the parsed array;  *)
(* its fields are whatever the agent wrote.                                *)
(***************************************************************************)
Item(titulo, prazo) == [titulo |-> titulo, prazo |-> prazo]

\* "Ab" due 1/2, and the same entry as the agent writes it on another day.
ItemAb == Item(Str(<<"A", "b">>), Str(<<"1", "/", "2">>))
ItemAbDeNovo == Item(Str(<<"a", " ", "B", "!">>), Str(<<"1", "-", "2">>))
\* another entry, without a date
ItemB == Item(Str(<<"b">>), Undef)
\* an object without the field titulo
ItemSemTitulo == Item(Undef, Str(<<"1", "/", "2">>))
\* an object whose titulo is the empty string
ItemTituloVazio == Item(Str(<<>>), Undef)
\* an object whose titulo is a JSON number
ItemTituloNumero == Item(Num(<<"7">>), Undef)

Itens == {ItemAb, ItemAbDeNovo, ItemB, ItemSemTitulo, ItemTituloVazio, ItemTituloNumero}

Listas == UNION {[1..n -> Itens] : n \in 0..MaxItens}

\* The outcomes of ai.models.generateContent followed by extrairJson.
Respostas ==
    {[tipo |-> t, itens |-> <<>>] : t \in {"erroApi", "semTexto", "naoParseavel"}}
        \cup {[tipo |-> "array", itens |-> l] : l \in Listas}

\* consultarGemini: the parsed array, and [] for an API error (catch), for a
\* response without text and for a text extrairJson cannot parse.
consultarGemini(resp) == IF resp.tipo = "array" THEN resp.itens ELSE <<>>

RECURSIVE TotalItens(_)
TotalItens(d) == IF d = <<>> THEN 0 ELSE Len(Head(d)) + TotalItens(Tail(d))

SemDados == [f \in 1..NumFontes |-> <<>>]

(***************************************************************************)
(* The table oportunidades.                                                *)
(***************************************************************************)
\* Mutant: the INSERT binds the title where the id belongs.
RowChaveTitulo(id, item, fonteNome) ==
    [id |-> item.titulo.txt, projeto |-> item.titulo, prazo |-> item.prazo,
     fonte |-> fonteNome]

\* Mutant: the INSERT binds the literal 'IPEA' for every source.
RowFonteFixa(id, item, fonteNome) ==
    [id |-> id, projeto |-> item.titulo, prazo |-> item.prazo, fonte |-> FONTE_IPEA]

\* A row; data_detectada (DEFAULT CURRENT_TIMESTAMP) is left out.
Row(id, item, fonteNome) ==
    [id |-> id, projeto |-> item.titulo, prazo |-> item.prazo, fonte |-> fonteNome]

Ids(rows) == {r.id : r \in rows}

\* Mutant: the table is created anew at every start.
initDBRecria(tabela) == {}

\* initDB: CREATE TABLE IF NOT EXISTS keeps the rows of an existing table.
initDB(tabela) == tabela

\* db.get('SELECT id FROM oportunidades WHERE id = ?', id): a row or undefined.
existe(tabela, id) == id \in Ids(tabela)

\* Mutant: the column id is not a key, every INSERT succeeds.
InsertOkSempre(tabela, row) == TRUE

\* INSERT INTO oportunidades: id TEXT PRIMARY KEY rejects a second row with
\* the same id (SQLITE_CONSTRAINT, the promise rejects).
InsertOk(tabela, row) == ~(row.id \in Ids(tabela))

\* The record pushed to the batch; fonte_url and cor follow from fonte_nome.
Oportunidade(id, item, fonteNome) ==
    [id_unico |-> id, titulo |-> item.titulo, prazo |-> item.prazo,
     fonte_nome |-> fonteNome]

(***************************************************************************)
(* main()                                                                  *)
(***************************************************************************)
Terminou == pc \in {"done", "abortado"}

\* One entry of the history: a call, and the candidate dados[f][j] (or the
\* source f) it was made for; 0 where there is none.
Ev(op, f, j) == [op |-> op, f |-> f, j |-> j]

ItemAtual == dados[g][i]

TemItem == g <= NumFontes /\ i <= Len(dados[g])

\* The variables of a process that has not started main() yet.
ProcInicial ==
    [pc |-> "idle", q |-> 0, g |-> 0, i |-> 0, dados |-> SemDados, idUnico |-> <<>>,
     novasOportunidades |-> <<>>, envio |-> "nenhum", storeInicio |-> {},
     anterior |-> [fim |-> "nenhum", envio |-> "nenhum"], log |-> <<>>, versao |-> 0]

InitMain ==
    /\ outra = ProcInicial
    /\ store = {}
    /\ runs = 0
    /\ pc = "idle"
    /\ q = 0
    /\ g = 0
    /\ i = 0
    /\ dados = SemDados
    /\ idUnico = <<>>
    /\ novasOportunidades = <<>>
    /\ envio = "nenhum"
    /\ storeInicio = {}
    /\ notificados = {}
    /\ duplicados = {}
    /\ anterior = [fim |-> "nenhum", envio |-> "nenhum"]
    /\ log = <<>>
    /\ versao = 0

\* lines 174-176: the process is started (again); initDB opens the table.
Iniciar ==
    /\ pc = "idle" \/ Terminou
    /\ runs < MaxRuns
    /\ runs' = runs + 1
    /\ store' = initDB(store)
    /\ storeInicio' = initDB(store)
    /\ anterior' = [fim |-> pc, envio |-> envio]
    /\ pc' = "gemini"
    /\ q' = 1
    /\ g' = 0
    /\ i' = 0
    /\ dados' = SemDados
    /\ idUnico' = <<>>
    /\ novasOportunidades' = <<>>
    /\ envio' = "nenhum"
    /\ log' = <<>>
    /\ versao' = 2
    /\ UNCHANGED <<notificados, duplicados, outra, pagina, entrada, saida>>

\* lines 178-224: the four calls of consultarGemini, one after the other.
ConsultarGemini(resp) ==
    /\ pc = "gemini"
    /\ TotalItens(dados) + Len(consultarGemini(resp)) <= MaxItens
    /\ dados' = [dados EXCEPT ![q] = consultarGemini(resp)]
    /\ IF q < NumFontes
       THEN /\ q' = q + 1
            /\ UNCHANGED <<pc, g, i>>
       ELSE /\ q' = 0
            /\ pc' = "loop"
            /\ g' = 1
            /\ i' = 1
    /\ log' = Append(log, Ev("consultarGemini", q, 0))
    /\ UNCHANGED <<store, runs, idUnico, novasOportunidades, envio, storeInicio,
                   notificados, duplicados, anterior, versao, outra, pagina, entrada, saida>>

\* line 234-235: grupo.dados is exhausted, the outer loop takes the next grupo.
ProximoGrupo ==
    /\ pc = "loop"
    /\ g <= NumFontes
    /\ i > Len(dados[g])
    /\ g' = g + 1
    /\ i' = 1
    /\ UNCHANGED <<store, runs, pc, q, dados, idUnico, novasOportunidades, envio,
                   storeInicio, notificados, duplicados, anterior, versao, outra, pagina, entrada,
                   saida, log>>

\* line 237: if (!item.titulo) continue;
SemTitulo ==
    /\ pc = "loop"
    /\ TemItem
    /\ ~Truthy(ItemAtual.titulo)
    /\ i' = i + 1
    /\ UNCHANGED <<store, runs, pc, q, g, dados, idUnico, novasOportunidades, envio,
                   storeInicio, notificados, duplicados, anterior, versao, outra, pagina, entrada,
                   saida, log>>

\* line 240, then db.get is issued (line 242).
GerarId ==
    /\ pc = "loop"
    /\ TemItem
    /\ Truthy(ItemAtual.titulo)
    /\ LET r == gerarIdEstavel(Fontes[g], ItemAtual.titulo, ItemAtual.prazo) IN
        IF r.lancou
        THEN \* the TypeError leaves main(): nothing catches it
             /\ pc' = "abortado"
             /\ UNCHANGED <<idUnico, log>>
        ELSE /\ pc' = "get"
             /\ idUnico' = r.id
             /\ log' = Append(log, Ev("get", g, i))
    /\ UNCHANGED <<store, runs, q, g, i, dados, novasOportunidades, envio,
                   storeInicio, notificados, duplicados, anterior, versao, outra, pagina, entrada,
                   saida>>

\* lines 242-243: the answer of db.get.
DbGet ==
    /\ pc = "get"
    /\ IF existe(store, idUnico)
       THEN /\ pc' = "loop"
            /\ i' = i + 1
            /\ idUnico' = <<>>
            /\ UNCHANGED log
       ELSE \* line 246: db.run is issued
            /\ pc' = "run"
            /\ log' = Append(log, Ev("run", g, i))
            /\ UNCHANGED <<i, idUnico>>
    /\ UNCHANGED <<store, runs, q, g, dados, novasOportunidades, envio, storeInicio,
                   notificados, duplicados, anterior, versao, outra, pagina, entrada, saida>>

\* Mutant: the rejection is caught and the loop goes on with the next
\* candidate.
DbFalhaContinua ==
    /\ pc \in {"get", "run"}
    /\ pc' = "loop"
    /\ i' = i + 1
    /\ idUnico' = <<>>
    /\ log' = Append(log, Ev("falhaDb", g, i))
    /\ UNCHANGED <<store, runs, q, g, dados, novasOportunidades, envio,
                   storeInicio, notificados, duplicados, anterior, versao, outra, pagina, entrada,
                   saida>>

\* Mutant: the record is pushed before db.run has answered, so a rejected
\* insert leaves it in the batch.
DbFalhaComPush ==
    /\ pc \in {"get", "run"}
    /\ pc' = "abortado"
    /\ novasOportunidades' =
           IF pc = "run"
           THEN Append(novasOportunidades, Oportunidade(idUnico, ItemAtual, Fontes[g]))
           ELSE novasOportunidades
    /\ log' = Append(log, Ev("falhaDb", g, i))
    /\ UNCHANGED <<store, runs, q, g, i, dados, idUnico, envio,
                   storeInicio, notificados, duplicados, anterior, versao, outra, pagina, entrada,
                   saida>>

\* lines 242, 246: db.get or db.run rejects (I/O error, locked database);
\* main() has no try, so the run ends there.
DbFalha ==
    /\ pc \in {"get", "run"}
    /\ pc' = "abortado"
    /\ log' = Append(log, Ev("falhaDb", g, i))
    /\ UNCHANGED <<store, runs, q, g, i, dados, idUnico, novasOportunidades, envio,
                   storeInicio, notificados, duplicados, anterior, versao, outra, pagina, entrada,
                   saida>>

\* Mutant: the record is put at the head of the batch (unshift).
DbRunNoInicio ==
    /\ pc = "run"
    /\ IF InsertOk(store, Row(idUnico, ItemAtual, Fontes[g]))
       THEN /\ store' = store \cup {Row(idUnico, ItemAtual, Fontes[g])}
            /\ novasOportunidades' =
                   <<Oportunidade(idUnico, ItemAtual, Fontes[g])>> \o novasOportunidades
            /\ notificados' = notificados \cup {idUnico}
            /\ duplicados' =
                   IF idUnico \in notificados THEN duplicados \cup {idUnico} ELSE duplicados
            /\ pc' = "loop"
            /\ i' = i + 1
            /\ idUnico' = <<>>
            /\ log' = log \o <<Ev("inserido", g, i), Ev("push", g, i)>>
       ELSE /\ pc' = "abortado"
            /\ log' = Append(log, Ev("falhaDb", g, i))
            /\ UNCHANGED <<store, novasOportunidades, notificados, duplicados, i, idUnico>>
    /\ UNCHANGED <<runs, q, g, dados, envio, storeInicio, anterior, versao, outra, pagina, entrada,
                   saida>>

\* lines 246-256: the row is inserted, then the record is pushed to the batch.
DbRun ==
    /\ pc = "run"
    /\ IF InsertOk(store, Row(idUnico, ItemAtual, Fontes[g]))
       THEN /\ store' = store \cup {Row(idUnico, ItemAtual, Fontes[g])}
            /\ novasOportunidades' =
                   Append(novasOportunidades, Oportunidade(idUnico, ItemAtual, Fontes[g]))
            /\ notificados' = notificados \cup {idUnico}
            /\ duplicados' =
                   IF idUnico \in notificados THEN duplicados \cup {idUnico} ELSE duplicados
            /\ pc' = "loop"
            /\ i' = i + 1
            /\ idUnico' = <<>>
            /\ log' = log \o <<Ev("inserido", g, i), Ev("push", g, i)>>
       ELSE \* SQLITE_CONSTRAINT: db.run rejects
            /\ pc' = "abortado"
            /\ log' = Append(log, Ev("falhaDb", g, i))
            /\ UNCHANGED <<store, novasOportunidades, notificados, duplicados, i, idUnico>>
    /\ UNCHANGED <<runs, q, g, dados, envio, storeInicio, anterior, versao, outra, pagina, entrada,
                   saida>>

\* line 234: todosResultados is exhausted.
FimLoop ==
    /\ pc = "loop"
    /\ g > NumFontes
    /\ pc' = "decidir"
    /\ UNCHANGED <<store, runs, q, g, i, dados, idUnico, novasOportunidades, envio,
                   storeInicio, notificados, duplicados, anterior, versao, outra, pagina, entrada,
                   saida, log>>

\* Mutant: the length test lets the empty batch through.
DeveEnviarSempre(lote) == Len(lote) >= 0

\* line 261: if (novasOportunidades.length > 0)
DeveEnviar(lote) == Len(lote) > 0

\* lines 261-266
Decidir ==
    /\ pc = "decidir"
    /\ pc' = IF DeveEnviar(novasOportunidades) THEN "email" ELSE "fechar"
    /\ UNCHANGED <<store, runs, q, g, i, dados, idUnico, novasOportunidades, envio,
                   storeInicio, notificados, duplicados, anterior, versao, outra, pagina, entrada,
                   saida, log>>

\* Mutant: a failed send takes the rows of the batch out of the table again.
AposErroEmailDesfaz(tabela, lote) ==
    {r \in tabela : \A x \in 1..Len(lote) : lote[x].id_unico # r.id}

\* lines 168-170: catch (error) logs; the table is not touched.
AposErroEmail(tabela, lote) == tabela

\* Mutant: the configuration test is gone, sendMail is called regardless.
ChamaSendMailSempre(resultado) == TRUE

\* line 136: if (!process.env.EMAIL_USER || !process.env.EMAIL_TO) return;
\* transporter.sendMail (line 166) is reached only past this test.
ChamaSendMail(resultado) == resultado # "semConfig"

\* Mutant: a failed send is tried again.
PcAposEmailRepete(resultado) == IF resultado = "falhou" THEN "email" ELSE "fechar"

\* What main() does after enviarEmailResumo returns: line 268.
PcAposEmail(resultado) == "fechar"

\* lines 135-171: enviarEmailResumo.  resultado is "semConfig" when EMAIL_USER
\* or EMAIL_TO is not set (line 136), else what transporter.sendMail did.
EnviarEmail(resultado) ==
    /\ pc = "email"
    /\ envio' = resultado
    /\ store' = IF resultado = "falhou"
                THEN AposErroEmail(store, novasOportunidades)
                ELSE store
    /\ pc' = PcAposEmail(resultado)
    /\ log' = log \o <<Ev("enviarEmailResumo", 0, 0)>>
                  \o (IF ChamaSendMail(resultado)
                      THEN <<Ev("sendMail", 0, 0)>>
                      ELSE <<>>)
    /\ UNCHANGED <<runs, q, g, i, dados, idUnico, novasOportunidades, storeInicio,
                   notificados, duplicados, anterior, versao, outra, pagina, entrada, saida>>

\* line 268: await db.close()
Fechar ==
    /\ pc = "fechar"
    /\ pc' = "done"
    /\ log' = Append(log, Ev("close", 0, 0))
    /\ UNCHANGED <<store, runs, q, g, i, dados, idUnico, novasOportunidades, envio,
                   storeInicio, notificados, duplicados, anterior, versao, outra, pagina, entrada,
                   saida>>

Loop == ProximoGrupo \/ SemTitulo \/ GerarId \/ DbGet \/ DbFalha \/ DbRun \/ FimLoop

Fim == Decidir \/ (\E r \in {"semConfig", "enviado", "falhou"} : EnviarEmail(r)) \/ Fechar

(***************************************************************************)
(* main() of the earlier version (lines 424-515): two sources, each asked  *)
(* and reconciled in turn; a record carries numero, projeto and prazo and  *)
(* its key is the source name, "-" and the numero.                         *)
(***************************************************************************)
FontesV1 == <<FONTE_IPEA, FONTE_FNP>>

NumFontesV1 == Len(FontesV1)

ItemV1(numero, projeto, prazo) == [numero |-> numero, projeto |-> projeto, prazo |-> prazo]

\* "Edital 1", the same numero under another projeto, the same projeto under
\* another numero, an object without numero, and one whose numero is a JSON
\* number and that has no other field.
ItensV1 ==
    {ItemV1(Str(<<"1">>), Str(<<"b">>), Undef),
     ItemV1(Str(<<"1">>), Str(<<"A", "b">>), Str(<<"1", "/", "2">>)),
     ItemV1(Str(<<"2">>), Str(<<"b">>), Undef),
     ItemV1(Undef, Str(<<"b">>), Undef),
     ItemV1(Num(<<"7">>), Undef, Undef)}

ListasV1 == UNION {[1..n -> ItensV1] : n \in 0..MaxItens}

RespostasV1 ==
    {[tipo |-> t, itens |-> <<>>] : t \in {"erroApi", "semTexto", "naoParseavel"}}
        \cup {[tipo |-> "array", itens |-> l] : l \in ListasV1}

\* lines 441, 484: `IPEA-${item.numero}`, `FNP-${item.numero}`; the template
\* literal takes the characters of a string and the decimal digits of a number.
IdV1(fonteNome, numero) == fonteNome \o <<"-">> \o numero.txt

\* lines 446-447, 489-490: the row binds idUnico, item.projeto, item.prazo and
\* the source name.
RowV1(id, item, fonteNome) ==
    [id |-> id, projeto |-> item.projeto, prazo |-> item.prazo, fonte |-> fonteNome]

\* lines 449-456, 492-499
OportunidadeV1(id, item, fonteNome) ==
    [id_unico |-> id, numero |-> item.numero, projeto |-> item.projeto,
     prazo |-> item.prazo, fonte_nome |-> fonteNome]

\* lines 424-426
IniciarV1 ==
    /\ pc = "idle" \/ Terminou
    /\ runs < MaxRuns
    /\ runs' = runs + 1
    /\ store' = initDB(store)
    /\ storeInicio' = initDB(store)
    /\ anterior' = [fim |-> pc, envio |-> envio]
    /\ pc' = "v1gemini"
    /\ q' = 0
    /\ g' = 1
    /\ i' = 0
    /\ dados' = SemDados
    /\ idUnico' = <<>>
    /\ novasOportunidades' = <<>>
    /\ envio' = "nenhum"
    /\ log' = <<>>
    /\ versao' = 1
    /\ UNCHANGED <<notificados, duplicados, outra, pagina, entrada, saida>>

\* lines 438, 481: consultarGemini for the source whose loop comes next.
ConsultarV1(resp) ==
    /\ pc = "v1gemini"
    /\ TotalItens(dados) + Len(consultarGemini(resp)) <= MaxItens
    /\ dados' = [dados EXCEPT ![g] = consultarGemini(resp)]
    /\ pc' = "v1loop"
    /\ i' = 1
    /\ log' = Append(log, Ev("consultarGemini", g, 0))
    /\ UNCHANGED <<store, runs, q, g, idUnico, novasOportunidades, envio, storeInicio,
                   notificados, duplicados, anterior, versao, outra, pagina, entrada, saida>>

\* lines 440, 483: the list of the source is exhausted; the second source is
\* asked after the first loop, the send decision follows the second.
FimFonteV1 ==
    /\ pc = "v1loop"
    /\ i > Len(dados[g])
    /\ IF g < NumFontesV1
       THEN /\ g' = g + 1
            /\ pc' = "v1gemini"
       ELSE /\ pc' = "decidir"
            /\ UNCHANGED g
    /\ i' = 0
    /\ UNCHANGED <<store, runs, q, dados, idUnico, novasOportunidades, envio,
                   storeInicio, notificados, duplicados, anterior, versao, outra, pagina,
                   entrada, saida, log>>

\* lines 441, 484: if (!item.numero) continue;
SemNumero ==
    /\ pc = "v1loop"
    /\ i <= Len(dados[g])
    /\ ~Truthy(ItemAtual.numero)
    /\ i' = i + 1
    /\ UNCHANGED <<store, runs, pc, q, g, dados, idUnico, novasOportunidades, envio,
                   storeInicio, notificados, duplicados, anterior, versao, outra, pagina,
                   entrada, saida, log>>

\* lines 442-444, 485-487: the key is built and db.get is issued.
GerarIdV1 ==
    /\ pc = "v1loop"
    /\ i <= Len(dados[g])
    /\ Truthy(ItemAtual.numero)
    /\ idUnico' = IdV1(FontesV1[g], ItemAtual.numero)
    /\ pc' = "v1get"
    /\ log' = Append(log, Ev("get", g, i))
    /\ UNCHANGED <<store, runs, q, g, i, dados, novasOportunidades, envio,
                   storeInicio, notificados, duplicados, anterior, versao, outra, pagina,
                   entrada, saida>>

\* lines 444-445, 487-488: the answer of db.get.
DbGetV1 ==
    /\ pc = "v1get"
    /\ IF existe(store, idUnico)
       THEN /\ pc' = "v1loop"
            /\ i' = i + 1
            /\ idUnico' = <<>>
            /\ UNCHANGED log
       ELSE /\ pc' = "v1run"
            /\ log' = Append(log, Ev("run", g, i))
            /\ UNCHANGED <<i, idUnico>>
    /\ UNCHANGED <<store, runs, q, g, dados, novasOportunidades, envio, storeInicio,
                   notificados, duplicados, anterior, versao, outra, pagina, entrada, saida>>

\* db.get or db.run rejects; this main() has no try either.
DbFalhaV1 ==
    /\ pc \in {"v1get", "v1run"}
    /\ pc' = "abortado"
    /\ log' = Append(log, Ev("falhaDb", g, i))
    /\ UNCHANGED <<store, runs, q, g, i, dados, idUnico, novasOportunidades, envio,
                   storeInicio, notificados, duplicados, anterior, versao, outra, pagina,
                   entrada, saida>>

\* lines 446-456, 489-499: the row is inserted, then the record is pushed.
DbRunV1 ==
    /\ pc = "v1run"
    /\ IF InsertOk(store, RowV1(idUnico, ItemAtual, FontesV1[g]))
       THEN /\ store' = store \cup {RowV1(idUnico, ItemAtual, FontesV1[g])}
            /\ novasOportunidades' =
                   Append(novasOportunidades,
                          OportunidadeV1(idUnico, ItemAtual, FontesV1[g]))
            /\ notificados' = notificados \cup {idUnico}
            /\ duplicados' =
                   IF idUnico \in notificados THEN duplicados \cup {idUnico} ELSE duplicados
            /\ pc' = "v1loop"
            /\ i' = i + 1
            /\ idUnico' = <<>>
            /\ log' = log \o <<Ev("inserido", g, i), Ev("push", g, i)>>
       ELSE /\ pc' = "abortado"
            /\ log' = Append(log, Ev("falhaDb", g, i))
            /\ UNCHANGED <<store, novasOportunidades, notificados, duplicados, i, idUnico>>
    /\ UNCHANGED <<runs, q, g, dados, envio, storeInicio, anterior, versao, outra, pagina,
                   entrada, saida>>

LoopV1 == FimFonteV1 \/ SemNumero \/ GerarIdV1 \/ DbGetV1 \/ DbFalhaV1 \/ DbRunV1

(***************************************************************************)
(* Spec: runs of main() one after the other over the same table, the agent *)
(* answering anything.                                                     *)
(***************************************************************************)
Init ==
    /\ InitMain
    /\ pagina = <<>>
    /\ entrada = <<>>
    /\ saida = <<>>

Next ==
    \/ Iniciar
    \/ \E resp \in Respostas : ConsultarGemini(resp)
    \/ Loop
    \/ Fim

Spec == Init /\ [][Next]_vars

(***************************************************************************)
(* SpecVersoes: runs over the same table (both versions open DB_FILENAME), *)
(* each run executing the current or the earlier main().                   *)
(***************************************************************************)
NextVersoes ==
    \/ Next
    \/ IniciarV1
    \/ \E resp \in RespostasV1 : ConsultarV1(resp)
    \/ LoopV1

SpecVersoes == Init /\ [][NextVersoes]_vars

(***************************************************************************)
(* SpecReplay: the same, but the pages do not change between the runs: the *)
(* agent gives the same answer for a source every time it is asked.        *)
(***************************************************************************)
\* The items of l that a assigns to source f, in the order of l.
Parte(l, a, f) ==
    LET idx == SelectSeq([j \in 1..Len(l) |-> j], LAMBDA j : a[j] = f)
    IN  [n \in 1..Len(idx) |-> l[idx[n]]]

Repartir(l, a) == [f \in 1..NumFontes |-> [tipo |-> "array", itens |-> Parte(l, a, f)]]

Crescentes(n) ==
    {a \in [1..n -> 1..NumFontes] : \A x, y \in 1..n : x < y => a[x] <= a[y]}

\* Every way of giving at most MaxItens items to the four sources.
Paginas == UNION {{Repartir(l, a) : a \in Crescentes(Len(l))} : l \in Listas}

InitReplay ==
    /\ InitMain
    /\ pagina \in Paginas
    /\ entrada = <<>>
    /\ saida = <<>>

NextReplay ==
    \/ Iniciar
    \/ ConsultarGemini(pagina[q])
    \/ Loop
    \/ Fim

SpecReplay == InitReplay /\ [][NextReplay]_vars

(***************************************************************************)
(* SpecOverlap: two processes run main() over the same table and the same  *)
(* pages.  The variables pc .. versao are those of the process that takes  *)
(* the next step; Trocar hands the turn to the other process, which can    *)
(* happen at every await of main().                                        *)
(***************************************************************************)
ProcAtual ==
    [pc |-> pc, q |-> q, g |-> g, i |-> i, dados |-> dados, idUnico |-> idUnico,
     novasOportunidades |-> novasOportunidades, envio |-> envio,
     storeInicio |-> storeInicio, anterior |-> anterior, log |-> log,
     versao |-> versao]

Trocar ==
    /\ outra # ProcAtual
    /\ outra' = ProcAtual
    /\ pc' = outra.pc
    /\ q' = outra.q
    /\ g' = outra.g
    /\ i' = outra.i
    /\ dados' = outra.dados
    /\ idUnico' = outra.idUnico
    /\ novasOportunidades' = outra.novasOportunidades
    /\ envio' = outra.envio
    /\ storeInicio' = outra.storeInicio
    /\ anterior' = outra.anterior
    /\ log' = outra.log
    /\ versao' = outra.versao
    /\ UNCHANGED <<store, runs, notificados, duplicados, pagina, entrada, saida>>

NextOverlap == NextReplay \/ Trocar

SpecOverlap == InitReplay /\ [][NextOverlap]_vars

(***************************************************************************)
(* SpecId: gerarIdEstavel applied to two argument triples.                 *)
(***************************************************************************)
Pad(n) == [j \in 1..n |-> "a"]

CharsTitulo == {"a", "A", "a_acute", "b", "1", " "}

Sufixos == UNION {[1..n -> CharsTitulo] : n \in 0..MaxSufixo}

\* Short titles, and titles whose last characters lie around position SlugLen.
TitulosId == {Pad(p) \o s : p \in {0, SlugLen - 1}, s \in Sufixos}

PrazosId ==
    {Undef, Str(<<>>), Str(<<"1", "/", "2">>), Str(<<"1", "-", "2">>),
     Str(<<"2", "/", "1">>)}

Args(fontes) ==
    {[fonteNome |-> f, titulo |-> Str(t), prazo |-> p] :
        f \in fontes, t \in TitulosId, p \in PrazosId}

Aplicado(a) == gerarIdEstavel(a.fonteNome, a.titulo, a.prazo)

InitId ==
    /\ InitMain
    /\ pagina = <<>>
    /\ entrada \in Args({FONTE_IPEA}) \X Args({FONTE_IPEA, FONTE_FNP})
    /\ saida = <<>>

Aplicar ==
    /\ saida = <<>>
    /\ entrada # <<>>
    /\ saida' = <<Aplicado(entrada[1]), Aplicado(entrada[2])>>
    /\ UNCHANGED <<mainVars, outra, pagina, entrada>>

NextId == Aplicar

SpecId == InitId /\ [][NextId]_vars

(***************************************************************************)
(* extrairJson (lines 81-93).  A text is a sequence of tokens: "[", "]",   *)
(* ",", the digit "1", a letter of prose "x", a blank " ", "F" for three   *)
(* backquotes and "J" for the letters json.                                *)
(***************************************************************************)
CharsJson == {"[", "]", ",", "1", "x", " ", "F", "J"}

\* JavaScript values that JSON.parse returns here: numbers and arrays.
JNum(digitos) == [tipo |-> "number", itens |-> <<>>, txt |-> digitos]
JArr(itens) == [tipo |-> "array", itens |-> itens, txt |-> <<>>]

\* replace(/```json/g, ''): one scan from the left; what was removed is not
\* scanned again.
RECURSIVE SemCercaJson(_)
SemCercaJson(t) ==
    IF t = <<>> THEN <<>>
    ELSE IF Len(t) >= 2 /\ t[1] = "F" /\ t[2] = "J"
         THEN SemCercaJson(SubSeq(t, 3, Len(t)))
         ELSE <<t[1]>> \o SemCercaJson(Tail(t))

\* replace(/```/g, '')
SemCerca(t) == SelectSeq(t, LAMBDA c : c # "F")

\* trim()
RECURSIVE TrimInicio(_)
TrimInicio(t) == IF t # <<>> /\ t[1] = " " THEN TrimInicio(Tail(t)) ELSE t

RECURSIVE TrimFim(_)
TrimFim(t) ==
    IF t # <<>> /\ t[Len(t)] = " " THEN TrimFim(SubSeq(t, 1, Len(t) - 1)) ELSE t

Trim(t) == TrimFim(TrimInicio(t))

\* indexOf and lastIndexOf: positions count from 0, -1 when c is not in t.
indexOf(t, c) ==
    IF \E k \in 1..Len(t) : t[k] = c
    THEN (CHOOSE k \in 1..Len(t) : t[k] = c /\ \A m \in 1..(k - 1) : t[m] # c) - 1
    ELSE -1

lastIndexOf(t, c) ==
    IF \E k \in 1..Len(t) : t[k] = c
    THEN (CHOOSE k \in 1..Len(t) : t[k] = c /\ \A m \in (k + 1)..Len(t) : t[m] # c) - 1
    ELSE -1

\* substring(a, b), for 0 <= a, b <= length: the characters from the smaller
\* of a and b up to, not including, the larger: the arguments are swapped
\* when a > b.
substring(t, a, b) == IF a > b THEN SubSeq(t, b + 1, a) ELSE SubSeq(t, a + 1, b)

\* JSON.parse on these tokens: value = ws (number | array) ws, number = one or
\* more digits, array = "[" ws "]" or "[" value ("," value)* "]".  A parse
\* step returns whether it succeeded, the value, and the next position.
Falhou == [ok |-> FALSE, val |-> JArr(<<>>), prox |-> 0]

RECURSIVE SkipWs(_, _)
SkipWs(t, p) == IF p <= Len(t) /\ t[p] = " " THEN SkipWs(t, p + 1) ELSE p

RECURSIVE FimNumero(_, _)
FimNumero(t, p) == IF p <= Len(t) /\ t[p] = "1" THEN FimNumero(t, p + 1) ELSE p

RECURSIVE ParseValue(_, _)
RECURSIVE ParseElems(_, _, _)

\* The elements of an array from position p on, acc being those before.
ParseElems(t, p, acc) ==
    LET v == ParseValue(t, p) IN
        IF ~v.ok THEN Falhou
        ELSE LET n == SkipWs(t, v.prox) IN
            IF n > Len(t) THEN Falhou
            ELSE IF t[n] = "," THEN ParseElems(t, n + 1, Append(acc, v.val))
            ELSE IF t[n] = "]"
                 THEN [ok |-> TRUE, val |-> JArr(Append(acc, v.val)), prox |-> n + 1]
                 ELSE Falhou

ParseValue(t, p) ==
    LET n == SkipWs(t, p) IN
        IF n > Len(t) THEN Falhou
        ELSE IF t[n] = "1"
             THEN [ok |-> TRUE, val |-> JNum(SubSeq(t, n, FimNumero(t, n) - 1)),
                   prox |-> FimNumero(t, n)]
        ELSE IF t[n] = "["
             THEN LET m == SkipWs(t, n + 1) IN
                      IF m <= Len(t) /\ t[m] = "]"
                      THEN [ok |-> TRUE, val |-> JArr(<<>>), prox |-> m + 1]
                      ELSE ParseElems(t, n + 1, <<>>)
        ELSE Falhou

\* JSON.parse(t): throws (SyntaxError) unless t is exactly one value.
JSONparse(t) ==
    LET v == ParseValue(t, 1) IN
        IF v.ok /\ SkipWs(t, v.prox) > Len(t)
        THEN [lancou |-> FALSE, val |-> v.val]
        ELSE [lancou |-> TRUE, val |-> JArr(<<>>)]

\* lines 81-93
extrairJson(text) ==
    LET limpo == Trim(SemCerca(SemCercaJson(text)))
        inicio == indexOf(limpo, "[")
        fim == lastIndexOf(limpo, "]")
    IN  IF inicio = -1 \/ fim = -1 THEN JArr(<<>>)
        ELSE LET r == JSONparse(substring(limpo, inicio, fim + 1)) IN
                 IF r.lancou THEN JArr(<<>>) ELSE r.val

(***************************************************************************)
(* SpecJson: extrairJson applied to a text and to the same text inside     *)
(* code fences and prose.                                                  *)
(***************************************************************************)
TextosJson == UNION {[1..n -> CharsJson] : n \in 0..MaxTexto}

\* What the agent may put before and after the array: nothing, a fence, a
\* fence with prose around it, prose with a bracketed reference in it.
Envelopes ==
    {[antes |-> <<>>, depois |-> <<>>],
     [antes |-> <<"F">>, depois |-> <<"F">>],
     [antes |-> <<"F", "J", " ">>, depois |-> <<" ", "F">>],
     [antes |-> <<"x", "x", " ", "F", "J", " ">>, depois |-> <<" ", "F", " ", "x">>],
     [antes |-> <<"x", "[", "1", "]", " ", "F", "J">>, depois |-> <<"F">>]}

Envolto(t, e) == e.antes \o t \o e.depois

InitJson ==
    /\ InitMain
    /\ pagina = <<>>
    /\ entrada \in {<<t, Envolto(t, e)>> : t \in TextosJson, e \in Envelopes}
    /\ saida = <<>>

ExtrairJson ==
    /\ saida = <<>>
    /\ entrada # <<>>
    /\ saida' = <<extrairJson(entrada[1]), extrairJson(entrada[2])>>
    /\ UNCHANGED <<mainVars, outra, pagina, entrada>>

NextJson == ExtrairJson

SpecJson == InitJson /\ [][NextJson]_vars

(***************************************************************************)
(* Properties.                                                             *)
(***************************************************************************)
IdsDoLote == {novasOportunidades[x].id_unico : x \in 1..Len(novasOportunidades)}

LoteSemRepeticao ==
    \A x, y \in 1..Len(novasOportunidades) :
        x # y => novasOportunidades[x].id_unico # novasOportunidades[y].id_unico

\* The identity of the item at dados[f][j], when gerarIdEstavel returns one.
IdDe(f, j) == gerarIdEstavel(Fontes[f], dados[f][j].titulo, dados[f][j].prazo)

Posicoes == {<<f, j>> \in (1..NumFontes) \X (1..MaxItens + 1) : j <= Len(dados[f])}

\* The candidates that pass the title check and get an identity.
Validas == {p \in Posicoes : Truthy(dados[p[1]][p[2]].titulo) /\ ~IdDe(p[1], p[2]).lancou}

\* C1: over all runs on the same table, an identity is pushed to a
\* notification batch at most once: not in two runs, and not twice in one run.
C1_NoMaximoUmaVez == duplicados = {} /\ LoteSemRepeticao

\* C1 witness: a second run has ended whose first source listed twice, in two
\* spellings, an identity that an earlier run had notified; its batch is empty.
C1_Witness ==
    /\ runs = 2
    /\ pc = "done"
    /\ dados[1] = <<ItemAb, ItemAbDeNovo>>
    /\ IdDe(1, 1).id \in notificados
    /\ IdDe(1, 2).id = IdDe(1, 1).id
    /\ novasOportunidades = <<>>

\* C2 as stated: a run over an empty table that completes marks every
\* candidate that passes the title check as new, and the run that follows it
\* over the same lists marks none.
C2_Original ==
    /\ (pc = "done" /\ storeInicio = {}) => Len(novasOportunidades) = Cardinality(Validas)
    /\ (runs >= 2 /\ anterior.fim = "done") => novasOportunidades = <<>>

\* C2 amended: a run over an empty table that completes marks as new every
\* distinct identity among the candidates that pass the title check, each
\* exactly once (a repeated identity is marked once, not once per candidate),
\* and the run that follows a completed run over the same lists marks none.
C2_Idempotente ==
    /\ (pc = "done" /\ storeInicio = {}) =>
           /\ IdsDoLote = {IdDe(p[1], p[2]).id : p \in Validas}
           /\ LoteSemRepeticao
    /\ (runs >= 2 /\ anterior.fim = "done") => novasOportunidades = <<>>

\* C2 witness: the second of two completed runs over the same lists has ended
\* with an empty batch although the lists hold a candidate.
C2_Witness ==
    /\ runs = 2
    /\ pc = "done"
    /\ anterior.fim = "done"
    /\ Validas # {}
    /\ novasOportunidades = <<>>

\* C3: the table is append-only: no step removes or changes a row, and no two
\* rows share an id.
C3_AppendOnly ==
    [][/\ \A r \in store : r \in store'
       /\ \A r1, r2 \in store' : r1.id = r2.id => r1 = r2]_vars

\* C3 witness: a later run met an identity of the table in another spelling
\* and ended; the row still holds the text of the first detection.
C3_Witness ==
    /\ runs = 2
    /\ pc = "done"
    /\ dados[1] = <<ItemAbDeNovo>>
    /\ Row(IdDe(1, 1).id, ItemAb, FONTE_IPEA) \in store
    /\ Cardinality(store) = 1

\* C4 as stated: when a run has ended, every row it inserted belongs to a
\* record of the batch that the run gave to enviarEmailResumo.
C4_Original ==
    Terminou =>
        \/ store = storeInicio
        \/ /\ envio # "nenhum"
           /\ Ids(store) \ Ids(storeInicio) \subseteq IdsDoLote

\* C5: with an empty list of new records the run neither calls
\* enviarEmailResumo nor sends: whenever the mail is being composed or has
\* been dealt with, the batch is not empty.
C5_LoteVazioNaoEnvia ==
    novasOportunidades = <<>> => (pc # "email" /\ envio = "nenhum")

\* C5 witness: a run over candidates that were all seen before has ended with
\* an empty batch.
C5_Witness ==
    /\ pc = "done"
    /\ Validas # {}
    /\ novasOportunidades = <<>>
    /\ envio = "nenhum"

\* The row that the run inserted for record x of its batch.
RowDoLote(x) ==
    [id |-> novasOportunidades[x].id_unico, projeto |-> novasOportunidades[x].titulo,
     prazo |-> novasOportunidades[x].prazo, fonte |-> novasOportunidades[x].fonte_nome]

\* C6: after a failed send the rows inserted before it (and the older ones)
\* are still in the table and the run goes on to close and end normally; the
\* run that follows over the same agent output marks nothing as new.
C6_FalhaDeEnvioNaoDesfaz ==
    /\ envio = "falhou" =>
           /\ pc \in {"fechar", "done"}
           /\ storeInicio \subseteq store
           /\ \A x \in 1..Len(novasOportunidades) : RowDoLote(x) \in store
    /\ anterior.envio = "falhou" => novasOportunidades = <<>>

\* C6 witness: the run after a failed send has ended; its lists hold the
\* candidates again and its batch is empty.
C6_Witness ==
    /\ anterior.envio = "falhou"
    /\ pc = "done"
    /\ Validas # {}
    /\ novasOportunidades = <<>>
    /\ store # {}

\* C7 as stated: when a run has ended, every candidate of every source other
\* than the one whose candidates hit an error has been reconciled: its
\* identity is in the table.
C7_Original ==
    Terminou =>
        \A p \in Validas :
            (pc = "abortado" => p[1] # g) => IdDe(p[1], p[2]).id \in Ids(store)

\* C8 as stated: for a candidate that passes the title check, gerarIdEstavel
\* returns an identity, whatever the payload holds.
C8_Original ==
    (pc = "loop" /\ TemItem /\ Truthy(ItemAtual.titulo)) =>
        ~gerarIdEstavel(Fontes[g], ItemAtual.titulo, ItemAtual.prazo).lancou

\* The letter or digit a character of a title stands for, whatever its case
\* and accent; <<>> for whitespace, punctuation and a loose combining mark.
Base(c) ==
    CASE c \in {"a", "A", "a_acute", "A_acute"} -> <<"a">>
      [] c \in {"b", "B"} -> <<"b">>
      [] c \in Digitos -> <<c>>
      [] OTHER -> <<>>

RECURSIVE Letras(_)
Letras(t) == IF t = <<>> THEN <<>> ELSE Base(Head(t)) \o Letras(Tail(t))

Prefixo(t, n) == [j \in 1..(IF Len(t) < n THEN Len(t) ELSE n) |-> t[j]]

\* Two titles that differ at most in case, accents, whitespace, punctuation.
MesmoTitulo(t1, t2) == Letras(t1.txt) = Letras(t2.txt)

Numeros(p) == SelectSeq(p.txt, LAMBDA c : c \in Digitos)

\* A deadline that carries a date: a text with digits in it.
EhData(p) == p.tipo = "string" /\ Numeros(p) # <<>>

\* Two deadlines that differ at most in date formatting: the same digits in
\* the same order, between whatever separators; or no date in either.
MesmoPrazo(p1, p2) ==
    \/ EhData(p1) /\ EhData(p2) /\ Numeros(p1) = Numeros(p2)
    \/ ~Truthy(p1) /\ ~Truthy(p2)

LoopCompleto == pc \in {"decidir", "email", "fechar", "done"}

\* C10: when two sources list a candidate with the same title and deadline
\* and the loop has gone through both, their identities differ, the table
\* holds a row of its own for each, and each one that was not in the table
\* when the run began is in the batch.
C10_FontesDistintas ==
    LoopCompleto =>
        \A p1, p2 \in Validas :
            ( /\ p1[1] # p2[1]
              /\ dados[p1[1]][p1[2]] = dados[p2[1]][p2[2]] )
            => /\ IdDe(p1[1], p1[2]).id # IdDe(p2[1], p2[2]).id
               /\ \E r1, r2 \in store :
                      /\ r1 # r2
                      /\ r1.id = IdDe(p1[1], p1[2]).id /\ r1.fonte = Fontes[p1[1]]
                      /\ r2.id = IdDe(p2[1], p2[2]).id /\ r2.fonte = Fontes[p2[1]]
               /\ \A p \in {p1, p2} :
                      IdDe(p[1], p[2]).id \notin Ids(storeInicio)
                          => IdDe(p[1], p[2]).id \in IdsDoLote

\* C10 witness: IPEA and FNP listed the same title and deadline, the run has
\* ended, two rows were inserted and the batch holds two records.
C10_Witness ==
    /\ pc = "done"
    /\ dados[1] = <<ItemAb>>
    /\ dados[2] = <<ItemAb>>
    /\ storeInicio = {}
    /\ Cardinality(store) = 2
    /\ Len(novasOportunidades) = 2

\* The row of record x of the batch, in either version of main().
RowDoLoteV(x) ==
    [id |-> novasOportunidades[x].id_unico,
     projeto |-> IF versao = 1 THEN novasOportunidades[x].projeto
                 ELSE novasOportunidades[x].titulo,
     prazo |-> novasOportunidades[x].prazo,
     fonte |-> novasOportunidades[x].fonte_nome]

\* The field a candidate must carry to be reconciled.
TemChave(f, j) ==
    IF versao = 1 THEN Truthy(dados[f][j].numero) ELSE Truthy(dados[f][j].titulo)

\* The calls of the given kind that this run has made, as positions of log.
Chamadas(op) == {k \in 1..Len(log) : log[k].op = op}

\* C12: when the recipient is not configured, enviarEmailResumo does not call
\* the outbound channel and raises nothing: main(), the current or the
\* earlier one, goes on to db.close() and ends normally, and the rows the
\* run inserted stay in the table.
C12_SemDestinatario ==
    envio = "semConfig" =>
        /\ Chamadas("sendMail") = {}
        /\ pc \in {"fechar", "done"}
        /\ pc = "done" => log[Len(log)].op = "close"
        /\ storeInicio \subseteq store
        /\ \A x \in 1..Len(novasOportunidades) : RowDoLoteV(x) \in store

\* C12 witness: a run with a batch of one new record found no recipient
\* configured and has ended.
C12_Witness ==
    /\ versao = 2
    /\ envio = "semConfig"
    /\ pc = "done"
    /\ Len(novasOportunidades) = 1
    /\ Chamadas("enviarEmailResumo") # {}
    /\ RowDoLoteV(1) \in store \ storeInicio

\* The candidates whose titulo (numero, in the earlier main()) is empty or
\* absent.
SemTitulos ==
    {p \in Posicoes :
        (IF versao = 1 THEN dados[p[1]][p[2]].numero ELSE dados[p[1]][p[2]].titulo)
            \in {Undef, Str(<<>>)}}

\* The candidates that are looked up in the table.
Reconciliaveis == IF versao = 1 THEN {p \in Posicoes : TemChave(p[1], p[2])} ELSE Validas

\* C13: a candidate whose titulo (numero, in the earlier main()) is empty or
\* absent is dropped: the run issues no db.get and no db.run for it, inserts
\* no row and pushes no record for it, and does not end at it: the loop goes
\* on to the next candidate.
C13_SemTituloDescartado ==
    \A p \in SemTitulos :
        /\ \A k \in 1..Len(log) : ~(log[k].f = p[1] /\ log[k].j = p[2])
        /\ ~(pc = "abortado" /\ g = p[1] /\ i = p[2])
        /\ (pc \in {"decidir", "email", "fechar", "done"}) =>
               \A v \in Reconciliaveis :
                   (v[1] > p[1] \/ (v[1] = p[1] /\ v[2] > p[2])) =>
                       \E k \in Chamadas("get") : log[k].f = v[1] /\ log[k].j = v[2]

\* C13 witness: a run has ended whose first source listed a record with an
\* empty titulo and then a new record; only the second one was looked up,
\* inserted and pushed.
C13_Witness ==
    /\ pc = "done"
    /\ dados[1] = <<ItemTituloVazio, ItemB>>
    /\ Len(novasOportunidades) = 1
    /\ novasOportunidades[1].titulo = ItemB.titulo
    /\ \E k \in Chamadas("inserido") : log[k].f = 1 /\ log[k].j = 2

\* C14: the insert precedes the push: after every step each record of the
\* batch has its row, under its own identity, in the table; and a step in
\* which db.run is rejected pushes nothing.
C14_InsertAntesDoPush ==
    [][/\ \A x \in 1..Len(novasOportunidades') : RowDoLote(x)' \in store'
       /\ (pc = "run" /\ pc' = "abortado") =>
              novasOportunidades' = novasOportunidades]_vars

\* C14 witness: a run inserted and pushed one record, then db.run was
\* rejected for the second candidate and the run ended with a batch of one.
C14_Witness ==
    /\ pc = "abortado"
    /\ Len(log) >= 2
    /\ log[Len(log)].op = "falhaDb"
    /\ log[Len(log) - 1].op = "run"
    /\ Len(novasOportunidades) = 1
    /\ RowDoLote(1) \in store

\* C15: a rejected db.get or db.run ends the run at that candidate: it is the
\* last thing the run did, so no later candidate of any source is read or
\* inserted and enviarEmailResumo is never called; the rows inserted before
\* it (and the older ones) stay in the table, and the table gained exactly
\* the rows of the batch.
C15_FalhaDoStoreAborta ==
    \A k \in Chamadas("falhaDb") :
        /\ k = Len(log)
        /\ pc = "abortado"
        /\ g = log[k].f /\ i = log[k].j
        /\ envio = "nenhum"
        /\ Chamadas("enviarEmailResumo") = {} /\ Chamadas("sendMail") = {}
        /\ storeInicio \subseteq store
        /\ store \ storeInicio = {RowDoLote(x) : x \in 1..Len(novasOportunidades)}

\* C15 witness: in a second run, over a table that holds a row of the first,
\* db.run was rejected for the candidate of the first source; the valid
\* candidate of the second source was never looked up.
C15_Witness ==
    /\ pc = "abortado"
    /\ runs = 2
    /\ storeInicio # {}
    /\ store = storeInicio
    /\ Len(dados[1]) = 1 /\ Len(dados[2]) = 1
    /\ <<2, 1>> \in Validas
    /\ log[Len(log)] = Ev("falhaDb", 1, 1)
    /\ log[Len(log) - 1] = Ev("run", 1, 1)
    /\ \A k \in 1..Len(log) : ~(log[k].f = 2 /\ log[k].j = 1)

\* The calls of the given kind that this run has made, in the order made.
EmOrdem(op) == SelectSeq(log, LAMBDA e : e.op = op)

\* Candidate <<f1, j1>> comes before <<f2, j2>> in source-then-input order.
Antes(f1, j1, f2, j2) == f1 < f2 \/ (f1 = f2 /\ j1 < j2)

\* C18: the agent is asked for the sources one after the other in the order
\* of todosResultados, and before any candidate is looked up; the lookups and
\* the inserts happen in source-then-input order; and the batch lists the new
\* records in exactly the order in which their rows were inserted.
C18_OrdemSequencial ==
    /\ \A n \in 1..Len(EmOrdem("consultarGemini")) : EmOrdem("consultarGemini")[n].f = n
    /\ \A k \in Chamadas("consultarGemini") : \A m \in Chamadas("get") : k < m
    /\ \A op \in {"get", "inserido"} :
           \A m, n \in 1..Len(EmOrdem(op)) :
               m < n => Antes(EmOrdem(op)[m].f, EmOrdem(op)[m].j,
                              EmOrdem(op)[n].f, EmOrdem(op)[n].j)
    /\ Len(novasOportunidades) = Len(EmOrdem("inserido"))
    /\ \A n \in 1..Len(novasOportunidades) :
           LET e == EmOrdem("inserido")[n] IN
               novasOportunidades[n] =
                   Oportunidade(IdDe(e.f, e.j).id, dados[e.f][e.j], Fontes[e.f])

\* C18 witness: a run has ended in which the third source listed one new
\* record and the first source another; the batch holds the first source's
\* record and then the third's.
C18_Witness ==
    /\ pc = "done"
    /\ dados[1] = <<ItemB>>
    /\ dados[3] = <<ItemAb>>
    /\ Len(EmOrdem("consultarGemini")) = NumFontes
    /\ EmOrdem("inserido") = <<Ev("inserido", 1, 1), Ev("inserido", 3, 1)>>
    /\ novasOportunidades[1].fonte_nome = FONTE_IPEA
    /\ novasOportunidades[2].fonte_nome = FONTE_UNDP

\* The text between the first "[" and the last "]" of t, both included;
\* empty when the last "]" comes before the first "[".
Fatia(t) == SubSeq(t, indexOf(t, "[") + 1, lastIndexOf(t, "]") + 1)

\* What extrairJson is documented to return for a text.
Esperado(text) ==
    LET limpo == SemCerca(SemCercaJson(text)) IN
        IF indexOf(limpo, "[") = -1 \/ lastIndexOf(limpo, "]") = -1 THEN JArr(<<>>)
        ELSE IF JSONparse(Fatia(limpo)).lancou THEN JArr(<<>>)
        ELSE JSONparse(Fatia(limpo)).val

\* The text is nothing but one JSON array.
ArrayPuro(t) ==
    /\ t # <<>> /\ t[1] = "[" /\ t[Len(t)] = "]"
    /\ ~JSONparse(t).lancou

\* C11 as stated: for every text extrairJson returns a list: the empty one
\* when "[" or "]" is absent or the text from the first "[" to the last "]"
\* does not parse, else the whole array parsed from that text once the fence
\* markers are removed; and an array wrapped in fences and prose gives the
\* records of the bare array.
C11_Original ==
    saida # <<>> =>
        /\ \A k \in 1..2 : saida[k].tipo = "array" /\ saida[k] = Esperado(entrada[k])
        /\ ArrayPuro(entrada[1]) =>
               saida[1] = JSONparse(entrada[1]).val /\ saida[2] = saida[1]

C19_UmEnvioNoFim ==
    /\ Chamadas("sendMail") # {} => Chamadas("enviarEmailResumo") # {}
    /\ \A k \in Chamadas("enviarEmailResumo") :
           /\ Chamadas("enviarEmailResumo") = {k}
           /\ Cardinality(Chamadas("sendMail")) <= 1
           /\ \A m \in (k + 1)..Len(log) : log[m].op \in {"sendMail", "close"}
           /\ pc \in {"fechar", "done"}
           /\ \A f \in 1..(IF versao = 1 THEN NumFontesV1 ELSE NumFontes) :
                  /\ \E m \in 1..(k - 1) : log[m] = Ev("consultarGemini", f, 0)
                  /\ \A j \in 1..Len(dados[f]) :
                         TemChave(f, j) => \E m \in 1..(k - 1) : log[m] = Ev("get", f, j)
           /\ {RowDoLoteV(x) : x \in 1..Len(novasOportunidades)} = store \ storeInicio
           /\ Len(novasOportunidades) = Cardinality(store \ storeInicio)

\* C19 witness: a run of the earlier main() inserted one record of each of
\* its two sources, mailed the two and has closed the database.
C19_Witness ==
    /\ versao = 1
    /\ pc = "done"
    /\ envio = "enviado"
    /\ Len(novasOportunidades) = 2
    /\ novasOportunidades[1].fonte_nome = FONTE_IPEA
    /\ novasOportunidades[2].fonte_nome = FONTE_FNP
    /\ Cardinality(Chamadas("sendMail")) = 1
    /\ log[Len(log)].op = "close"

IdsDoLoteDaOutra ==
    {outra.novasOportunidades[x].id_unico : x \in 1..Len(outra.novasOportunidades)}

\* C17: when two runs overlap on the same table, whatever the order of their
\* lookups and inserts, the table holds at most one row per identity, an
\* identity is in the batch of at most one of them, and no identity is ever
\* pushed to a batch twice: the two never both pass the absent check and
\* both notify.
C17_NoMaximoUmNotifica ==
    /\ \A r1, r2 \in store : r1.id = r2.id => r1 = r2
    /\ IdsDoLote \cap IdsDoLoteDaOutra = {}
    /\ duplicados = {}
    /\ LoteSemRepeticao

\* C17 witness: both processes found the identity absent; the other one
\* inserted and pushed it, and then the INSERT of this one was rejected and
\* its run ended, its batch empty.
C17_Witness ==
    /\ pc = "abortado"
    /\ Len(log) >= 2
    /\ log[Len(log)].op = "falhaDb"
    /\ log[Len(log) - 1].op = "run"
    /\ idUnico \in IdsDoLoteDaOutra
    /\ \E k \in 1..Len(outra.log) :
           outra.log[k] = Ev("inserido", log[Len(log)].f, log[Len(log)].j)
    /\ novasOportunidades = <<>>
    /\ outra.pc = "done"
    /\ outra.envio = "enviado"
====
